---- MODULE Spec2Model ----
(***************************************************************************)
(* RemoteCursor (src/src/remote_cursor.rs): the streaming RowBinary decode *)
(* loop.  One poll_next call is modelled step by step: a decode attempt on *)
(* the pending buffer, the reaction to its outcome, and the poll of the    *)
(* transport's chunk stream.  BufList and rowbinary::deserialize_from are  *)
(* not part of the sources at hand; they follow the written contract of    *)
(* the Pending Buffer and of the Row Decoder.                              *)
(***************************************************************************)
EXTENDS Integers, Sequences, FiniteSets, TLC

VARIABLES
    pc,          \* position inside poll_next: "idle", "decode", "fetch", "panic"
    bufs,        \* this.pending: the retained chunks, oldest first
    cursor,      \* this.pending: read position, counted from the commit position
    tmp_len,     \* this.tmp_buf.len()
    srcDone,     \* this.stream has yielded None
    chunks,      \* every chunk the stream has yielded so far, in order
    nErr,        \* transport errors the stream has yielded so far
    out,         \* every item poll_next has returned (Ready(Some(..)) / Ready(None))
    last,        \* kind of the latest Poll value returned to the caller
    trace,       \* the steps of the pull in progress (or of the latest pull)
    pushed,      \* bytes handed to pending.push so far
    committed,   \* bytes the decoder reported consumed by successful decodes
    maxNeed,     \* largest n of any TooSmallBuffer(n) handled so far
    repulls,     \* pulls made after a terminal item was returned
    lastErr,     \* the latest error the stream has yielded (0: none yet)
    fs           \* the latest FixedString conversion: operation, input, result

cursorVars == <<pc, bufs, cursor, tmp_len, srcDone, chunks, nErr, out, last,
                trace, pushed, committed, maxNeed, repulls, lastErr>>

vars == <<pc, bufs, cursor, tmp_len, srcDone, chunks, nErr, out, last, trace,
          pushed, committed, maxNeed, repulls, lastErr, fs>>

-----------------------------------------------------------------------------
(* Bounds of the model *)

MaxStream == 4      \* bytes the transport delivers in all
MaxEmpty == 1       \* zero-length chunks the transport delivers
MaxErrs == 1        \* errors the transport yields
MaxRepull == 2      \* pulls after a terminal item
WordBits == 16      \* width of usize

WordMax == 2^WordBits - 1

-----------------------------------------------------------------------------
(* Wire format of the rows: one tag byte, then a body whose length the tag *)
(* fixes.  The declared field sizes are what the decoder asks the scratch  *)
(* buffer to hold.                                                         *)

InitialCapacity == 1024

BadTag == 2

ByteVals == 0..3

BigNeed == 2^(WordBits - 1) + 1

(* Two fields whose shortfall the decoder reports loosely: for ZeroTag it  *)
(* reports the lower bound 0, for TotalTag the whole declared size.        *)
ZeroTag == 4

TotalTag == 5

LooseVals == ByteVals \cup {ZeroTag, TotalTag}

PayLen(t) == CASE t = 0 -> 3
               [] t = 1 -> 1
               [] OTHER -> 0

Needs(t) == CASE t = 0 -> <<3>>
              [] t = 1 -> <<2000, 5000>>
              [] t = 3 -> <<BigNeed>>
              [] t = ZeroTag -> <<2000>>
              [] t = TotalTag -> <<WordMax>>
              [] OTHER -> <<>>

RECURSIVE FirstShort(_, _)
FirstShort(needs, cap) ==
    IF needs = <<>> THEN 0
    ELSE IF Head(needs) > cap THEN Head(needs)
    ELSE FirstShort(Tail(needs), cap)

(* the n of TooSmallBuffer(n) for a field of short bytes and cap of scratch *)
ReportedNeed(t, short, cap) ==
    CASE t = ZeroTag -> 0
      [] t = TotalTag -> short
      [] OTHER -> short - cap

(* rowbinary::deserialize_from(&mut pending, &mut tmp_buf): one attempt to  *)
(* decode one row from the unread view with a scratch of cap bytes.  read  *)
(* is how far the attempt advanced the read position.                      *)
Decode(view, cap) ==
    IF view = <<>>
    THEN [kind |-> "ned", val |-> <<>>, used |-> 0, need |-> 0, read |-> 0]
    ELSE LET t == Head(view)
             short == FirstShort(Needs(t), cap)
         IN IF t = BadTag
            THEN [kind |-> "fatal", val |-> <<>>, used |-> 0, need |-> 0, read |-> 1]
            ELSE IF Len(view) < 1 + PayLen(t)
            THEN [kind |-> "ned", val |-> <<>>, used |-> 0, need |-> 0, read |-> 1]
            ELSE IF short > 0
            THEN [kind |-> "bts", val |-> <<>>, used |-> 0, need |-> ReportedNeed(t, short, cap),
                  read |-> 1]
            ELSE [kind |-> "ok", val |-> SubSeq(view, 1, 1 + PayLen(t)),
                  used |-> 1 + PayLen(t), need |-> 0, read |-> 1 + PayLen(t)]

-----------------------------------------------------------------------------
(* BufList: the Pending Buffer *)

RECURSIVE Flatten(_)
Flatten(ss) == IF ss = <<>> THEN <<>> ELSE Head(ss) \o Flatten(Tail(ss))

DropFirst(s, n) == SubSeq(s, n + 1, Len(s))

BufPush(bs, chunk) == Append(bs, chunk)

BufsCnt(bs) == Len(bs)

Retained(bs) == Len(Flatten(bs))

BufView(bs, cur) == DropFirst(Flatten(bs), cur)

RECURSIVE BufCommit(_, _)
BufCommit(bs, cur) ==
    IF cur = 0 \/ bs = <<>> THEN bs
    ELSE IF Len(Head(bs)) > cur
    THEN <<DropFirst(Head(bs), cur)>> \o Tail(bs)
    ELSE BufCommit(Tail(bs), cur - Len(Head(bs)))

BufRollback(cur) == 0

-----------------------------------------------------------------------------
(* usize arithmetic *)

RECURSIVE Pow2From(_, _)
Pow2From(n, p) == IF p >= n THEN p ELSE Pow2From(n, 2 * p)

(* usize::checked_next_power_of_two; 0 stands for None *)
CheckedNextPowerOfTwo(n) ==
    LET p == Pow2From(n, 1) IN IF p > WordMax THEN 0 ELSE p

-----------------------------------------------------------------------------
(* Items and the initial state *)

Row(val, used, took, from) ==
    [kind |-> "row", val |-> val, err |-> "", used |-> used, took |-> took,
     from |-> from]

ErrItem(e) ==
    [kind |-> "err", val |-> <<>>, err |-> e, used |-> 0, took |-> 0, from |-> 0]

EndItem ==
    [kind |-> "end", val |-> <<>>, err |-> "", used |-> 0, took |-> 0, from |-> 0]

Terminal == {"err", "end"}

Init ==
    /\ pc = "idle"
    /\ bufs = <<>>
    /\ cursor = 0
    /\ tmp_len = InitialCapacity
    /\ srcDone = FALSE
    /\ chunks = <<>>
    /\ nErr = 0
    /\ out = <<>>
    /\ last = "none"
    /\ trace = <<>>
    /\ pushed = 0
    /\ committed = 0
    /\ maxNeed = 0
    /\ repulls = 0
    /\ lastErr = 0
    /\ fs = [op |-> "none", in |-> <<>>, out |-> <<>>]

-----------------------------------------------------------------------------
(* The transport: what this.stream.poll_next_unpin may yield next *)

Delivered == Flatten(chunks)

NumEmpty == Cardinality({i \in 1..Len(chunks) : chunks[i] = <<>>})

(* The chunks of Spec and SpecRepull carry rows whose shortfall the        *)
(* decoder reports exactly, so there the sum of line 54 stays in the word; *)
(* the properties of the growth arithmetic are settled over LooseChoices,  *)
(* where it does not.                                                      *)
ChunkChoices ==
    IF srcDone THEN {}
    ELSE {c \in UNION {[1..k -> ByteVals] : k \in 0..(MaxStream - Len(Delivered))} :
            c = <<>> => NumEmpty < MaxEmpty}

-----------------------------------------------------------------------------
(* poll_next *)

Active == last \notin Terminal

(* the caller polls a cursor that has not yet returned a terminal item *)
Pull ==
    /\ pc = "idle"
    /\ Active
    /\ pc' = "decode"
    /\ trace' = <<>>
    /\ UNCHANGED <<bufs, cursor, tmp_len, srcDone, chunks, nErr, out, last,
                   pushed, committed, maxNeed, repulls, lastErr, fs>>

(* the caller polls again although a terminal item was returned *)
Repull ==
    /\ pc = "idle"
    /\ ~Active
    /\ repulls < MaxRepull
    /\ pc' = "decode"
    /\ trace' = <<>>
    /\ repulls' = repulls + 1
    /\ UNCHANGED <<bufs, cursor, tmp_len, srcDone, chunks, nErr, out, last,
                   pushed, committed, maxNeed, lastErr, fs>>

Attempt == Decode(BufView(bufs, cursor), tmp_len)

(* a success that returns the row and leaves out pending.commit() *)
DecodeOkNoCommit ==
    /\ pc = "decode"
    /\ Attempt.kind = "ok"
    /\ LET d == Attempt
       IN /\ cursor' = cursor + d.read
          /\ out' = Append(out, Row(d.val, d.used, 0,
                                    pushed - Retained(bufs) + cursor))
          /\ committed' = committed + d.used
    /\ last' = "row"
    /\ pc' = "idle"
    /\ trace' = Append(trace, "ok")
    /\ UNCHANGED <<bufs, tmp_len, srcDone, chunks, nErr, pushed, maxNeed,
                   repulls, lastErr, fs>>

(* a success that commits everything buffered instead of what was read *)
DecodeOkCommitAll ==
    /\ pc = "decode"
    /\ Attempt.kind = "ok"
    /\ LET d == Attempt
           kept == BufCommit(bufs, Retained(bufs))
       IN /\ bufs' = kept
          /\ cursor' = 0
          /\ out' = Append(out, Row(d.val, d.used, Retained(bufs) - Retained(kept),
                                    pushed - Retained(bufs) + cursor))
          /\ committed' = committed + d.used
    /\ last' = "row"
    /\ pc' = "idle"
    /\ trace' = Append(trace, "ok")
    /\ UNCHANGED <<tmp_len, srcDone, chunks, nErr, pushed, maxNeed, repulls,
                   lastErr, fs>>

(* Ok(value): commit and return the row *)
DecodeOk ==
    /\ pc = "decode"
    /\ Attempt.kind = "ok"
    /\ LET d == Attempt
           rd == cursor + d.read
           kept == BufCommit(bufs, rd)
       IN /\ bufs' = kept
          /\ cursor' = 0
          /\ out' = Append(out, Row(d.val, d.used, Retained(bufs) - Retained(kept),
                                    pushed - Retained(bufs) + cursor))
          /\ committed' = committed + d.used
    /\ last' = "row"
    /\ pc' = "idle"
    /\ trace' = Append(trace, "ok")
    /\ UNCHANGED <<tmp_len, srcDone, chunks, nErr, pushed, maxNeed, repulls,
                   lastErr, fs>>

(* what (tmp_buf.len() + need).checked_next_power_of_two() may evaluate to:  *)
(* the sum panics on overflow in a build with overflow checks and wraps in *)
(* one without; 0 stands for a panic                                       *)
NewLen(len, need) ==
    IF len + need > WordMax
    THEN {0, CheckedNextPowerOfTwo((len + need) % (WordMax + 1))}
    ELSE {CheckedNextPowerOfTwo(len + need)}

(* a growth that falls through to the poll of the stream (no continue) *)
DecodeTooSmallThenFetch ==
    /\ pc = "decode"
    /\ Attempt.kind = "bts"
    /\ \E n \in NewLen(tmp_len, Attempt.need) :
          /\ n # 0
          /\ tmp_len' = n
    /\ cursor' = BufRollback(cursor + Attempt.read)
    /\ maxNeed' = IF Attempt.need > maxNeed THEN Attempt.need ELSE maxNeed
    /\ trace' = Append(trace, "bts")
    /\ pc' = "fetch"
    /\ UNCHANGED <<bufs, srcDone, chunks, nErr, out, last, pushed, committed,
                   repulls, lastErr, fs>>

(* a growth that retries without pending.rollback() *)
DecodeTooSmallNoRollback ==
    /\ pc = "decode"
    /\ Attempt.kind = "bts"
    /\ \E n \in NewLen(tmp_len, Attempt.need) :
          /\ n # 0
          /\ tmp_len' = n
    /\ cursor' = cursor + Attempt.read
    /\ maxNeed' = IF Attempt.need > maxNeed THEN Attempt.need ELSE maxNeed
    /\ trace' = Append(trace, "bts")
    /\ UNCHANGED <<pc, bufs, srcDone, chunks, nErr, out, last, pushed,
                   committed, repulls, lastErr, fs>>

(* Err(TooSmallBuffer(need)): resize the scratch, roll back, retry *)
DecodeTooSmall ==
    /\ pc = "decode"
    /\ Attempt.kind = "bts"
    /\ \E n \in NewLen(tmp_len, Attempt.need) :
          /\ n # 0
          /\ tmp_len' = n
    /\ cursor' = BufRollback(cursor + Attempt.read)
    /\ maxNeed' = IF Attempt.need > maxNeed THEN Attempt.need ELSE maxNeed
    /\ trace' = Append(trace, "bts")
    /\ UNCHANGED <<pc, bufs, srcDone, chunks, nErr, out, last, pushed,
                   committed, repulls, lastErr, fs>>

(* Err(TooSmallBuffer(need)) whose new length does not fit: expect("oom")  *)
(* panics before the scratch is resized or the buffer rolled back          *)
DecodeTooSmallOom ==
    /\ pc = "decode"
    /\ Attempt.kind = "bts"
    /\ 0 \in NewLen(tmp_len, Attempt.need)
    /\ pc' = "panic"
    /\ cursor' = cursor + Attempt.read
    /\ trace' = Append(trace, "bts")
    /\ UNCHANGED <<bufs, tmp_len, srcDone, chunks, nErr, out, last, pushed,
                   committed, maxNeed, repulls, lastErr, fs>>

(* a shortage of input that polls the stream without pending.rollback() *)
DecodeNotEnoughNoRollback ==
    /\ pc = "decode"
    /\ Attempt.kind = "ned"
    /\ cursor' = cursor + Attempt.read
    /\ pc' = "fetch"
    /\ trace' = Append(trace, "ned")
    /\ UNCHANGED <<bufs, tmp_len, srcDone, chunks, nErr, out, last, pushed,
                   committed, maxNeed, repulls, lastErr, fs>>

(* a shortage of input that is returned to the caller like any other error *)
DecodeNotEnoughEscapes ==
    /\ pc = "decode"
    /\ Attempt.kind = "ned"
    /\ cursor' = cursor + Attempt.read
    /\ out' = Append(out, ErrItem("NotEnoughData"))
    /\ last' = "err"
    /\ pc' = "idle"
    /\ trace' = Append(trace, "ned")
    /\ UNCHANGED <<bufs, tmp_len, srcDone, chunks, nErr, pushed, committed,
                   maxNeed, repulls, lastErr, fs>>

(* Err(NotEnoughData): roll back and go on to poll the stream *)
DecodeNotEnough ==
    /\ pc = "decode"
    /\ Attempt.kind = "ned"
    /\ cursor' = BufRollback(cursor + Attempt.read)
    /\ pc' = "fetch"
    /\ trace' = Append(trace, "ned")
    /\ UNCHANGED <<bufs, tmp_len, srcDone, chunks, nErr, out, last, pushed,
                   committed, maxNeed, repulls, lastErr, fs>>

(* a fatal error that commits what the failed attempt read *)
DecodeFatalCommits ==
    /\ pc = "decode"
    /\ Attempt.kind = "fatal"
    /\ bufs' = BufCommit(bufs, cursor + Attempt.read)
    /\ cursor' = 0
    /\ out' = Append(out, ErrItem("BadTag"))
    /\ last' = "err"
    /\ pc' = "idle"
    /\ trace' = Append(trace, "fatal")
    /\ UNCHANGED <<tmp_len, srcDone, chunks, nErr, pushed, committed, maxNeed,
                   repulls, lastErr, fs>>

(* Err(e): any other decode error is returned as it is *)
DecodeFatal ==
    /\ pc = "decode"
    /\ Attempt.kind = "fatal"
    /\ cursor' = cursor + Attempt.read
    /\ out' = Append(out, ErrItem("BadTag"))
    /\ last' = "err"
    /\ pc' = "idle"
    /\ trace' = Append(trace, "fatal")
    /\ UNCHANGED <<bufs, tmp_len, srcDone, chunks, nErr, pushed, committed,
                   maxNeed, repulls, lastErr, fs>>

(* Poll::Ready(Some(Ok(val))): push the chunk and loop *)
FetchChunk ==
    /\ pc = "fetch"
    /\ \E c \in ChunkChoices :
          /\ bufs' = BufPush(bufs, c)
          /\ chunks' = Append(chunks, c)
          /\ pushed' = pushed + Len(c)
    /\ pc' = "decode"
    /\ trace' = Append(trace, "chunk")
    /\ UNCHANGED <<cursor, tmp_len, srcDone, nErr, out, last, committed,
                   maxNeed, repulls, lastErr, fs>>

(* the errors the stream may yield, and e.to_string(): the message of e   *)
TransportErrs == {101, 102}

ErrToString(e) == <<e>>

(* Error::Custom(message) as an item *)
CustomErr(msg) == [ErrItem("Custom") EXCEPT !.val = msg]

(* a transport error that is returned without its message *)
FetchErrDropsMessage ==
    /\ pc = "fetch"
    /\ ~srcDone
    /\ nErr < MaxErrs
    /\ nErr' = nErr + 1
    /\ \E e \in TransportErrs :
          /\ lastErr' = e
          /\ out' = Append(out, ErrItem("Custom"))
    /\ last' = "err"
    /\ pc' = "idle"
    /\ trace' = Append(trace, "terr")
    /\ UNCHANGED <<bufs, cursor, tmp_len, srcDone, chunks, pushed, committed,
                   maxNeed, repulls, fs>>

(* Poll::Ready(Some(Err(e))): the transport error is wrapped and returned *)
FetchErr ==
    /\ pc = "fetch"
    /\ ~srcDone
    /\ nErr < MaxErrs
    /\ nErr' = nErr + 1
    /\ \E e \in TransportErrs :
          /\ lastErr' = e
          /\ out' = Append(out, CustomErr(ErrToString(e)))
    /\ last' = "err"
    /\ pc' = "idle"
    /\ trace' = Append(trace, "terr")
    /\ UNCHANGED <<bufs, cursor, tmp_len, srcDone, chunks, pushed, committed,
                   maxNeed, repulls, fs>>

(* Poll::Ready(None) if this.pending.bufs_cnt() > 0 *)
FetchEndTruncated ==
    /\ pc = "fetch"
    /\ BufsCnt(bufs) > 0
    /\ srcDone' = TRUE
    /\ out' = Append(out, ErrItem("NotEnoughData"))
    /\ last' = "err"
    /\ pc' = "idle"
    /\ trace' = Append(trace, "end")
    /\ UNCHANGED <<bufs, cursor, tmp_len, chunks, nErr, pushed, committed,
                   maxNeed, repulls, lastErr, fs>>

(* Poll::Ready(None) *)
FetchEndClean ==
    /\ pc = "fetch"
    /\ ~(BufsCnt(bufs) > 0)
    /\ srcDone' = TRUE
    /\ out' = Append(out, EndItem)
    /\ last' = "end"
    /\ pc' = "idle"
    /\ trace' = Append(trace, "end")
    /\ UNCHANGED <<bufs, cursor, tmp_len, chunks, nErr, pushed, committed,
                   maxNeed, repulls, lastErr, fs>>

(* Poll::Pending *)
FetchPending ==
    /\ pc = "fetch"
    /\ ~srcDone
    /\ last' = "pending"
    /\ pc' = "idle"
    /\ trace' = Append(trace, "pending")
    /\ UNCHANGED <<bufs, cursor, tmp_len, srcDone, chunks, nErr, out, pushed,
                   committed, maxNeed, repulls, lastErr, fs>>

Next ==
    \/ Pull
    \/ DecodeOk
    \/ DecodeTooSmall
    \/ DecodeTooSmallOom
    \/ DecodeNotEnough
    \/ DecodeFatal
    \/ FetchChunk
    \/ FetchErr
    \/ FetchEndTruncated
    \/ FetchEndClean
    \/ FetchPending

Spec == Init /\ [][Next]_vars

(* The cursor over a decoder that may report any lower bound as its need.  *)
(* The stream is short, and a pull is followed for MaxSpin growths.        *)
MaxLooseStream == 2

MaxSpin == 3

LooseChoices ==
    IF srcDone THEN {}
    ELSE {c \in UNION {[1..k -> LooseVals] :
                          k \in 0..(MaxLooseStream - Len(Delivered))} :
            c = <<>> => NumEmpty < MaxEmpty}

FetchChunkLoose ==
    /\ pc = "fetch"
    /\ \E c \in LooseChoices :
          /\ bufs' = BufPush(bufs, c)
          /\ chunks' = Append(chunks, c)
          /\ pushed' = pushed + Len(c)
    /\ pc' = "decode"
    /\ trace' = Append(trace, "chunk")
    /\ UNCHANGED <<cursor, tmp_len, srcDone, nErr, out, last, committed,
                   maxNeed, repulls, lastErr, fs>>

Spins == Cardinality({i \in 1..Len(trace) : trace[i] = "bts"})

DecodeTooSmallSpin ==
    /\ Spins < MaxSpin
    /\ DecodeTooSmall

NextLoose ==
    \/ Pull
    \/ DecodeOk
    \/ DecodeTooSmallSpin
    \/ DecodeTooSmallOom
    \/ DecodeNotEnough
    \/ DecodeFatal
    \/ FetchChunkLoose
    \/ FetchErr
    \/ FetchEndTruncated
    \/ FetchEndClean
    \/ FetchPending

SpecLoose == Init /\ [][NextLoose]_vars

(* the same cursor with a caller that keeps polling after a terminal item *)
NextRepull == Next \/ Repull

SpecRepull == Init /\ [][NextRepull]_vars

-----------------------------------------------------------------------------
(* FixedString (src/src/fixed_string.rs) and its serde representation.  A  *)
(* value of the interchange format is a serde_json::Value.                 *)

MaxStr == 2         \* length of the strings tried

Chars == {"a", "b"}

Strings == UNION {[1..k -> Chars] : k \in 0..MaxStr}

Keys == {"FixedString", "other"}

JNull == [t |-> "null", v |-> <<>>]

JNum(n) == [t |-> "number", v |-> <<n>>]

JStr(s) == [t |-> "string", v |-> s]

JArr(items) == [t |-> "array", v |-> items]

JObj(fields) == [t |-> "object", v |-> fields]

Scalars == {JNull, JNum(0)} \cup {JStr(s) : s \in Strings}

JsonVals ==
    Scalars
    \cup {JArr(<<>>)} \cup {JArr(<<x>>) : x \in Scalars}
    \cup UNION {{JObj(f) : f \in [ks -> Scalars]} : ks \in SUBSET Keys}

FixedString(s) == [string |-> s]

FixedStrings == {FixedString(s) : s \in Strings}

DeOk(x) == [kind |-> "ok", val |-> x, msg |-> ""]

DeErr(m) == [kind |-> "err", val |-> FixedString(<<>>), msg |-> m]

(* Option::unwrap on None *)
DePanic == [kind |-> "panic", val |-> FixedString(<<>>), msg |-> "unwrap on None"]

(* serde_json::Value::as_str(..) is Some *)
IsStr(v) == v.t = "string"

(* <FixedString as FromStr>::from_str, as used by str::parse *)
FromStr(s) == DeOk(FixedString(s))

NewFixed(s) == DeOk(FixedString(s))

(* a serializer that writes the bare string *)
SerializeBare(x) == JStr(x.string)

(* impl Serialize for FixedString: a struct of one field "FixedString" *)
Serialize(x) == JObj([k \in {"FixedString"} |-> JStr(x.string)])

(* format!("{:?}", source) for a String: the text in quotes (the          *)
(* characters tried need no escape)                                        *)
DebugString(s) == <<"\"">> \o s \o <<"\"">>

(* format!("{:?}", source) for a FixedString: #[derive(Debug)] *)
DebugFixedString(x) ==
    <<"F", "i", "x", "e", "d", "S", "t", "r", "i", "n", "g", " ", "{", " ",
      "s", "t", "r", "i", "n", "g", ":", " ">>
        \o DebugString(x.string) \o <<" ", "}">>

(* impl SerializeAs<T> for FixedString: a struct of one field             *)
(* "FixedString" holding debug, the Debug text of the source              *)
SerializeAs(debug) == JObj([k \in {"FixedString"} |-> JStr(debug)])

(* impl Deserialize for FixedString *)
Deserialize(obj) ==
    IF obj.t = "object"
    THEN IF "FixedString" \in DOMAIN obj.v
         THEN IF IsStr(obj.v["FixedString"])
              THEN NewFixed(obj.v["FixedString"].v)
              ELSE DePanic
         ELSE DeErr("no FixedString field")
    ELSE IF IsStr(obj) THEN NewFixed(obj.v) ELSE DePanic

(* impl DeserializeAs<T> for FixedString, with T = FixedString *)
DeserializeAs(obj) ==
    IF obj.t = "object"
    THEN IF "FixedString" \in DOMAIN obj.v
         THEN IF IsStr(obj.v["FixedString"])
              THEN FromStr(obj.v["FixedString"].v)
              ELSE DePanic
         ELSE DeErr("no FixedString field")
    ELSE IF IsStr(obj) THEN FromStr(obj.v) ELSE DePanic

FsDeserialize ==
    /\ \E v \in JsonVals : fs' = [op |-> "de", in |-> v, out |-> Deserialize(v)]
    /\ UNCHANGED cursorVars

FsDeserializeAs ==
    /\ \E v \in JsonVals : fs' = [op |-> "deas", in |-> v, out |-> DeserializeAs(v)]
    /\ UNCHANGED cursorVars

FsSerialize ==
    /\ \E x \in FixedStrings : fs' = [op |-> "ser", in |-> x, out |-> Serialize(x)]
    /\ UNCHANGED cursorVars

(* the serialized value is read back *)
FsRoundTrip ==
    /\ fs.op = "ser"
    /\ fs' = [op |-> "rt", in |-> fs.in, out |-> Deserialize(fs.out)]
    /\ UNCHANGED cursorVars

(* serialize_as with T = FixedString *)
FsSerializeAs ==
    /\ \E x \in FixedStrings :
          fs' = [op |-> "seras", in |-> x,
                 out |-> SerializeAs(DebugFixedString(x))]
    /\ UNCHANGED cursorVars

(* serialize_as with T = String *)
FsSerializeAsString ==
    /\ \E str \in Strings :
          fs' = [op |-> "serasstr", in |-> str,
                 out |-> SerializeAs(DebugString(str))]
    /\ UNCHANGED cursorVars

(* what serialize_as wrote for a FixedString is read back by deserialize_as *)
FsRoundTripAs ==
    /\ fs.op = "seras"
    /\ fs' = [op |-> "rtas", in |-> fs.in, out |-> DeserializeAs(fs.out)]
    /\ UNCHANGED cursorVars

NextFS ==
    \/ FsDeserialize
    \/ FsDeserializeAs
    \/ FsSerialize
    \/ FsRoundTrip
    \/ FsSerializeAs
    \/ FsSerializeAsString
    \/ FsRoundTripAs

SpecFS == Init /\ [][NextFS]_vars

-----------------------------------------------------------------------------
(* Helpers of the properties *)

Rows == SelectSeq(out, LAMBDA it : it.kind = "row")

DecodeSteps == {"ok", "bts", "ned", "fatal"}

PollSteps == {"chunk", "terr", "end", "pending"}

Count(step) == Cardinality({i \in 1..Len(trace) : trace[i] = step})

NoEmptyChunk == \A i \in 1..Len(chunks) : chunks[i] # <<>>

IsPow2(n) == n >= 1 /\ Pow2From(n, 1) = n

(* the items a cursor returns when the whole byte sequence arrives as one  *)
(* chunk, pulled until a terminal item                                     *)
RECURSIVE WholeRun(_, _, _)
WholeRun(view, cap, from) ==
    LET d == Decode(view, cap)
        n == CheckedNextPowerOfTwo(cap + d.need)
    IN CASE d.kind = "ok" ->
              <<Row(d.val, d.used, d.used, from)>>
                  \o WholeRun(DropFirst(view, d.used), cap, from + d.used)
         [] d.kind = "bts" ->
              IF n = 0 THEN <<ErrItem("oom")>> ELSE WholeRun(view, n, from)
         [] d.kind = "ned" ->
              IF view = <<>> THEN <<EndItem>> ELSE <<ErrItem("NotEnoughData")>>
         [] OTHER -> <<ErrItem("BadTag")>>

OneChunk(bytes) == WholeRun(bytes, InitialCapacity, 0)

(* a byte sequence that encodes K rows and nothing else *)
ValidStream(bytes) == OneChunk(bytes)[Len(OneChunk(bytes))].kind = "end"

-----------------------------------------------------------------------------
(* C1: when a valid encoding of K rows has been delivered in non-empty     *)
(* chunks, however split, and the cursor has been pulled to the end of the *)
(* stream, the items returned are exactly the K rows, in order, that the   *)
(* one-chunk delivery returns, followed by a clean end.                    *)
C1_ChunkBoundaryIndependence ==
    (pc = "idle" /\ srcDone /\ NoEmptyChunk /\ ValidStream(Delivered))
        => /\ out = OneChunk(Delivered)
           /\ last = "end"

(* two rows delivered one byte per chunk, then the clean end *)
C1_Witness ==
    /\ pc = "idle" /\ srcDone /\ last = "end"
    /\ Len(chunks) = 4
    /\ \A i \in 1..Len(chunks) : Len(chunks[i]) = 1
    /\ Len(Rows) = 2
    /\ out = OneChunk(Delivered)

(* C2: whenever the transport signals end-of-input while the pending       *)
(* buffer retains zero bytes, the pull returns the clean end (None) and no *)
(* error.                                                                  *)
C2_CleanEnd ==
    (pc = "idle" /\ trace # <<>> /\ trace[Len(trace)] = "end" /\ Retained(bufs) = 0)
        => last = "end"

(* C3: an end-of-input with bytes still retained yields exactly one        *)
(* terminal NotEnoughData error, and no later pull yields anything more.   *)
C3_TruncatedEndOnce ==
    \A i \in 1..Len(out) :
        (out[i].kind = "err" /\ out[i].err = "NotEnoughData" /\ Retained(bufs) > 0)
            => i = Len(out)

(* C4: after a fatal decode error, a transport error or the end of the     *)
(* sequence, no pull returns a further row or a further error.             *)
C4_TerminalIsFinal ==
    \A i \in 1..Len(out) : \A j \in 1..Len(out) :
        (i < j /\ out[i].kind \in Terminal) => out[j].kind = "end"

(* C5: no pull returns TooSmallBuffer, and no pull returns NotEnoughData   *)
(* unless the transport has signalled end-of-input.                        *)
C5_TransientsNeverEscape ==
    \A i \in 1..Len(out) :
        out[i].kind = "err" =>
            \/ out[i].err \in {"BadTag", "Custom"}
            \/ out[i].err = "NotEnoughData" /\ srcDone

(* a pull that met both transient outcomes and returned a row *)
C5_Witness ==
    /\ last = "row"
    /\ Count("ned") >= 2
    /\ Count("bts") >= 2
    /\ trace[Len(trace)] = "ok"

(* C6: the scratch length starts as a power of two and every step,         *)
(* whatever the decoder reports, keeps it a power of two, never makes it   *)
(* smaller, and leaves it at least as large as every n of a                *)
(* TooSmallBuffer(n) handled so far.                                       *)
C6_ScratchMonotone ==
    /\ IsPow2(tmp_len) /\ tmp_len >= maxNeed
    /\ [][IsPow2(tmp_len') /\ tmp_len' >= tmp_len /\ tmp_len' >= maxNeed']_vars

(* C7: the bytes the pending buffer retains are the bytes pushed minus the *)
(* bytes committed, and every delivered byte was pushed once.              *)
C7_BoundedRetention ==
    /\ Retained(bufs) = pushed - committed
    /\ pushed = Len(Delivered)

(* a row was committed out of the middle of a chunk, the rest is retained *)
C7_Witness ==
    /\ committed = 2
    /\ pushed = 4
    /\ Len(chunks) = 1
    /\ Retained(bufs) = 2

(* C8: within a pull the stream is polled only right after a decode        *)
(* attempt reported NotEnoughData (and was rolled back); after a           *)
(* TooSmallBuffer the next step is another decode attempt; nothing follows *)
(* a success.                                                              *)
C8_FetchOnlyOnNotEnoughData ==
    /\ pc = "fetch" => (trace # <<>> /\ trace[Len(trace)] = "ned" /\ cursor = 0)
    /\ \A i \in 1..Len(trace) :
          /\ trace[i] \in PollSteps => (i > 1 /\ trace[i - 1] = "ned")
          /\ (trace[i] = "bts" /\ i < Len(trace)) => trace[i + 1] \in DecodeSteps
          /\ trace[i] = "ok" => i = Len(trace)
    /\ (pc = "decode" /\ trace # <<>>) => trace[Len(trace)] \in {"bts", "chunk"}

(* two TooSmallBuffer reports in a row, then the success, no poll between *)
C8_Witness ==
    /\ Len(trace) >= 3
    /\ trace[Len(trace) - 2] = "bts"
    /\ trace[Len(trace) - 1] = "bts"
    /\ trace[Len(trace)] = "ok"

(* C9: the k-th returned row is decoded from the bytes that start where    *)
(* the (k-1)-th row's committed range ended, each success commits exactly  *)
(* the count the decoder reported, and the bytes still retained are the    *)
(* stream's bytes after the last committed one.                            *)
C9_OrderedContiguous ==
    /\ \A k \in 1..Len(Rows) :
          /\ Rows[k].from = (IF k = 1 THEN 0 ELSE Rows[k - 1].from + Rows[k - 1].took)
          /\ Rows[k].took = Rows[k].used
          /\ Rows[k].val = SubSeq(Delivered, Rows[k].from + 1,
                                  Rows[k].from + Rows[k].used)
    /\ Flatten(bufs) = DropFirst(Delivered, committed)

(* two rows returned, the second one starting inside a chunk *)
C9_Witness ==
    /\ Len(Rows) = 2
    /\ Rows[2].from = 2
    /\ Len(chunks) = 2
    /\ Len(chunks[1]) = 3

(* C10: whatever retries preceded it, a returned row has the value and the *)
(* committed byte count that a single decode attempt on the stream from    *)
(* the row's offset, with ample scratch, gives.                            *)
C10_RetryIndependence ==
    \A k \in 1..Len(Rows) :
        LET d == Decode(DropFirst(Delivered, Rows[k].from), WordMax)
        IN /\ d.kind = "ok"
           /\ Rows[k].val = d.val
           /\ Rows[k].took = d.used

(* the 4-byte field split 3+1: NotEnoughData after the first chunk, then   *)
(* the success that commits all 4 bytes                                    *)
C10_Witness ==
    /\ chunks = <<<<0, 1, 1>>, <<1>>>>
    /\ trace = <<"ned", "chunk", "ned", "chunk", "ok">>
    /\ Rows = <<Row(<<0, 1, 1, 1>>, 4, 4, 0)>>
    /\ Retained(bufs) = 0

(* C11: when the stream yields an error, that same step returns the error  *)
(* Custom carrying the error's message and ends the pull: nothing is       *)
(* pushed, no decode attempt and no further poll of the stream follows.    *)
C11_TransportErrorForwarded ==
    [][nErr' # nErr =>
          /\ out' = Append(out, CustomErr(ErrToString(lastErr')))
          /\ last' = "err"
          /\ pc' = "idle"
          /\ trace' = Append(trace, "terr")
          /\ bufs' = bufs /\ cursor' = cursor /\ pushed' = pushed
          /\ chunks' = chunks /\ tmp_len' = tmp_len]_vars

(* the stream failed while a partial row was buffered *)
C11_Witness ==
    /\ pc = "idle" /\ last = "err"
    /\ lastErr = 102
    /\ out[Len(out)] = CustomErr(<<102>>)
    /\ trace[Len(trace)] = "terr"
    /\ Retained(bufs) = 3

(* the two positions of the pending buffer, counted in bytes of the stream *)
CommitPos == pushed - Retained(bufs)

ReadPos == CommitPos + cursor

PositionsOrdered == 0 <= CommitPos /\ CommitPos <= ReadPos /\ ReadPos <= pushed

(* C12: commit position <= read position <= bytes pushed in every state;   *)
(* a push moves neither position, a rollback puts the read position on the *)
(* commit position and keeps every chunk (and doing it again changes       *)
(* nothing), a commit puts the commit position on the read position.       *)
C12_PositionInvariant ==
    /\ PositionsOrdered
    /\ [][/\ PositionsOrdered'
          /\ trace' = Append(trace, "chunk") =>
                (pushed' >= pushed /\ ReadPos' = ReadPos /\ CommitPos' = CommitPos)
          /\ (pc' # "panic" /\ (trace' = Append(trace, "ned")
                                \/ trace' = Append(trace, "bts"))) =>
                /\ ReadPos' = CommitPos /\ CommitPos' = CommitPos /\ bufs' = bufs
                /\ BufRollback(cursor') = cursor'
          /\ trace' = Append(trace, "ok") =>
                /\ CommitPos' = ReadPos + Attempt.read
                /\ ReadPos' = CommitPos']_vars

(* a rollback after a commit: one byte of the next row was read and is     *)
(* unread again, the chunk that holds it is retained                       *)
C12_Witness ==
    /\ pc = "fetch"
    /\ CommitPos = 2 /\ ReadPos = 2 /\ pushed = 3
    /\ Len(bufs) = 1
    /\ trace = <<"ned">>

(* the smallest power of two that is at least n *)
IsNextPow2(p, n) == IsPow2(p) /\ p >= n /\ (p = 1 \/ p \div 2 < n)

HasBigField(it) == it.kind = "row" /\ Head(it.val) = 1

(* C13: handling TooSmallBuffer(n), for every n the decoder reports, sets  *)
(* the scratch length to the smallest power of two >= old length + n; a    *)
(* returned row with a 5000-byte field                                     *)
(* has met TooSmallBuffer and leaves the scratch, 1024 at first, at 8192.  *)
C13_GrowthPolicy ==
    [][/\ (trace' = Append(trace, "bts") /\ pc' # "panic") =>
              IsNextPow2(tmp_len', tmp_len + Attempt.need)
       /\ (\E i \in 1..Len(out') : HasBigField(out'[i])) =>
              (tmp_len' = 8192 /\ maxNeed' > 0)]_vars

Wrapper(s) == JObj([k \in {"FixedString"} |-> JStr(s)])

(* C14: by impl Deserialize the bare string s and the wrapper object       *)
(* {"FixedString": s} both give FixedString(s); impl Serialize always      *)
(* gives the one-field wrapper object holding s, never the bare string;    *)
(* Deserialize of what Serialize wrote is the value written.               *)
C14_FixedStringForms ==
    /\ (fs.op = "de" /\ fs.in.t = "string") => fs.out = DeOk(FixedString(fs.in.v))
    /\ (fs.op = "de" /\ \E s \in Strings : fs.in = Wrapper(s)) =>
          fs.out = DeOk(FixedString(fs.in.v["FixedString"].v))
    /\ fs.op = "ser" =>
          /\ fs.out.t = "object"
          /\ DOMAIN fs.out.v = {"FixedString"}
          /\ fs.out.v["FixedString"] = JStr(fs.in.string)
    /\ fs.op = "rt" => fs.out = DeOk(fs.in)

(* a two-character value written by Serialize and read back by Deserialize *)
C14_Witness ==
    /\ fs.op = "rt"
    /\ fs.in = FixedString(<<"a", "b">>)
    /\ fs.out = DeOk(FixedString(<<"a", "b">>))

(* C15: the commit position moves exactly in the steps that return a row,  *)
(* which follow a successful attempt; every NotEnoughData or               *)
(* TooSmallBuffer outcome is rolled back, and every decode attempt starts  *)
(* with the read position on the commit position.                          *)
C15_CommitRollbackDiscipline ==
    [][/\ (CommitPos' # CommitPos) <=>
             /\ Len(out') = Len(out) + 1
             /\ out'[Len(out')].kind = "row"
             /\ trace' = Append(trace, "ok")
             /\ Attempt.kind = "ok"
       /\ Len(Rows') = Len(Rows) + 1 => CommitPos' = CommitPos + Attempt.used
       /\ (pc' # "panic" /\ (trace' = Append(trace, "ned")
                             \/ trace' = Append(trace, "bts"))) => cursor' = 0
       /\ pc' = "decode" => ReadPos' = CommitPos']_vars

(* one row committed, then a rollback and a push: the next attempt is due *)
C15_Witness ==
    /\ pc = "decode"
    /\ Len(Rows) = 1
    /\ trace = <<"ned", "chunk">>
    /\ ReadPos = CommitPos /\ CommitPos = 2
    /\ Retained(bufs) = 2

(* C16: when the length the scratch would need (its length plus the        *)
(* reported need, or the next power of two of that) does not fit the       *)
(* machine word, the cursor stops with the out-of-memory failure and does  *)
(* not go on decoding.                                                     *)
C16_GrowthFailureFatal ==
    [][(/\ pc = "decode"
        /\ Attempt.kind = "bts"
        /\ \/ tmp_len + Attempt.need > WordMax
           \/ CheckedNextPowerOfTwo(tmp_len + Attempt.need) = 0)
       => pc' = "panic"]_vars

(* C17: every TooSmallBuffer(n) that is handled, n = 0 included, leaves    *)
(* the scratch strictly longer and at least n longer than it was, so a     *)
(* pull cannot retry for ever without I/O.                                 *)
C17_GrowthStrict ==
    [][(/\ pc = "decode"
        /\ Attempt.kind = "bts"
        /\ tmp_len + Attempt.need <= WordMax
        /\ pc' # "panic")
       => /\ tmp_len' > tmp_len
          /\ tmp_len' >= tmp_len + Attempt.need]_vars

(* What the transport has yielded so far, the Pending results left out *)
ChunkEvent(c) == [t |-> "chunk", c |-> c, e |-> 0]

Events ==
    [i \in 1..Len(chunks) |-> ChunkEvent(chunks[i])]
        \o (IF nErr > 0 THEN <<[t |-> "err", c |-> <<>>, e |-> lastErr]>>
            ELSE IF srcDone THEN <<[t |-> "end", c |-> <<>>, e |-> 0]>>
            ELSE <<>>)

(* the items poll_next returns, pull after pull, over a transport that     *)
(* yields evs and never Pending                                            *)
RECURSIVE Replay(_, _, _, _)
Replay(bs, cap, evs, from) ==
    LET d == Decode(BufView(bs, 0), cap)
        n == CheckedNextPowerOfTwo(cap + d.need)
        kept == BufCommit(bs, d.read)
        took == Retained(bs) - Retained(kept)
    IN CASE d.kind = "ok" ->
              <<Row(d.val, d.used, took, from)>> \o Replay(kept, cap, evs, from + took)
         [] d.kind = "bts" ->
              IF n = 0 THEN <<>> ELSE Replay(bs, n, evs, from)
         [] d.kind = "fatal" -> <<ErrItem("BadTag")>>
         [] OTHER ->
              IF evs = <<>> THEN <<>>
              ELSE IF Head(evs).t = "chunk"
              THEN Replay(BufPush(bs, Head(evs).c), cap, Tail(evs), from)
              ELSE IF Head(evs).t = "err"
              THEN <<CustomErr(ErrToString(Head(evs).e))>>
              ELSE IF BufsCnt(bs) > 0 THEN <<ErrItem("NotEnoughData")>>
              ELSE <<EndItem>>

IsPrefix(a, b) == Len(a) <= Len(b) /\ a = SubSeq(b, 1, Len(a))

(* C18: a pull returns Pending only straight after a NotEnoughData attempt *)
(* and the Pending poll of the stream; then the read position is on the    *)
(* commit position and the buffer holds every delivered byte not yet       *)
(* committed; and the items returned are those of the same transport       *)
(* events without any Pending: all of them when the cursor is suspended or *)
(* has returned its terminal item, a prefix of them otherwise.             *)
C18_SuspensionSafety ==
    LET ref == Replay(<<>>, InitialCapacity, Events, 0)
    IN /\ (pc = "idle" /\ last = "pending") =>
             /\ Len(trace) >= 2
             /\ trace[Len(trace)] = "pending"
             /\ trace[Len(trace) - 1] = "ned"
             /\ ReadPos = CommitPos
             /\ Flatten(bufs) = DropFirst(Delivered, CommitPos)
             /\ out = ref
       /\ pc = "idle" => IsPrefix(out, ref)
       /\ (pc = "idle" /\ last \in Terminal) => out = ref

(* suspended with one row returned and the first byte of the next retained *)
C18_Witness ==
    /\ pc = "idle" /\ last = "pending"
    /\ trace = <<"ned", "pending">>
    /\ Len(Rows) = 1
    /\ Retained(bufs) = 1
    /\ Len(chunks) = 2
    /\ out = Replay(<<>>, InitialCapacity, Events, 0)

(* the transport events with the zero-length chunks left out *)
NonEmptyEvents == SelectSeq(Events, LAMBDA ev : ev.t # "chunk" \/ ev.c # <<>>)

(* C19: zero-length chunks change no outcome: once the cursor has returned *)
(* its terminal item, the items are those of the same transport events     *)
(* without the zero-length chunks; so a stream whose rows are all          *)
(* committed and that ends after zero-length chunks ends cleanly.          *)
C19_EmptyChunksHarmless ==
    (pc = "idle" /\ last \in Terminal)
        => out = Replay(<<>>, InitialCapacity, NonEmptyEvents, 0)

(* a JSON value that is neither a string nor a wrapper around a string *)
BadInput(v) ==
    /\ ~IsStr(v)
    /\ ~(v.t = "object" /\ "FixedString" \in DOMAIN v.v /\ IsStr(v.v["FixedString"]))

(* C20: Deserialize and DeserializeAs return a deserialization error, and  *)
(* do not panic, for every input that is neither a bare string nor a       *)
(* wrapper object with a string-valued "FixedString" field.                *)
C20_BadInputIsError ==
    (fs.op \in {"de", "deas"} /\ BadInput(fs.in)) => fs.out.kind = "err"

====
